---- MODULE Spec2Model ----
(***************************************************************************)
(* A model of templateer2 (src/src/templateer2/templateer.py and           *)
(* parsing.py): the document splitter, the configuration parser, the       *)
(* schema extractor, the tool session manager, the template renderer and   *)
(* the pipeline TemplateProcessor.async_process.                           *)
(*                                                                         *)
(* Texts are sequences of tokens.  A token is a record [t, k, v]:          *)
(*   t = "M"  the marker prefix  "# ///"      (regex  #\s*///)             *)
(*   t = "S"  the word  " script\n"           (regex  \s*script\s*\n)      *)
(*   t = "T"  the word  " template\n"         (regex  \s*template\s*\n)    *)
(*   t = "W"  whitespace                                                   *)
(*   t = "Q"  a triple quote, t = "D" a single double-quote character      *)
(*   t = "L"  a configuration line  "# k = v"                              *)
(*   t = "C"  a line of the code region, t = "I" a template item k         *)
(* Exceptions are names of Python exception classes; only subclasses of    *)
(* Exception are modelled (no cancellation, no KeyboardInterrupt).         *)
(***************************************************************************)
EXTENDS Integers, Sequences, FiniteSets, TLC

VARIABLES
    pc,             \* position of the control flow of process/async_process
    loop_running,   \* an asyncio event loop is running in this thread
    doc,            \* the input: [exists, text, fs] (template file and the referenced file)
    template_file,  \* TemplateFile returned by from_file
    err,            \* the exception async_process is raising ("" if none)
    mcp_manager,    \* self.mcp_manager is set (line 456)
    exit_stack,     \* McpClientManager.exit_stack: the entered contexts, in order
    sessions,       \* McpClientManager.sessions (server names)
    server_tools,   \* McpClientManager.server_tools (server names)
    server_resources, \* McpClientManager.server_resources (server names)
    init_idx,       \* initialize: index of the server being initialized
    init_phase,     \* initialize: the statement of the loop body that runs next
    init_outcome,   \* initialize: per server, "ok" or the statement that raised
    load_result,    \* PydanticModuleLoader.load: "" (not called), "ok" or "raised"
    module_ns,      \* module_info.module: the members of the executed code region
    sys_modules,    \* the entries load has added to sys.modules and not removed
    classes,        \* module_info.classes (names of the schema classes)
    context,        \* the render context (name -> origin of the bound value)
    tmpl_idx,       \* render: index of the template item evaluated next
    returned,       \* render: the values the evaluated items produced, in order
    requests,       \* requests sent to tool servers: <<server, op, answered>>
    out_dir,        \* the output directory exists
    out_files,      \* the files written in the output directory (names)
    n_close,        \* number of calls of McpClientManager.close
    cfg_in,         \* from_raw_config on its own: the argument [raw, fs]
    cfg_out,        \* from_raw_config on its own: the result
    line_in,        \* _parse_template_config on its own: the value of a line
    line_out        \* _parse_template_config on its own: what the value parses to

vars == <<pc, loop_running, doc, template_file, err, mcp_manager, exit_stack,
          sessions, server_tools, server_resources, init_idx, init_phase,
          init_outcome, load_result, module_ns, sys_modules, classes, context, tmpl_idx, returned,
          requests, out_dir, out_files, n_close, cfg_in, cfg_out, line_in, line_out>>

\* ------------------------------------------------------------------ bounds
MaxTemplate == 2    \* items in a template region
MaxServers == 2     \* server specs in one mcp-servers object
MaxValue == 4       \* characters between the brackets of a configuration value

\* ------------------------------------------------------------- small helpers
Min(S) == CHOOSE x \in S : \A y \in S : x <= y

SeqToSet(s) == {s[i] : i \in 1..Len(s)}

RECURSIVE SeqsUpTo(_, _)
SeqsUpTo(S, n) ==
    IF n = 0 THEN {<<>>}
    ELSE LET shorter == SeqsUpTo(S, n - 1)
         IN shorter \cup {Append(s, x) : s \in {q \in shorter : Len(q) = n - 1}, x \in S}

\* --------------------------------------------------- configuration values
\* The JSON text of an mcp-servers value: j = "bad" is not JSON, "scalar" is
\* JSON that is no object (a number, a string, an array, null), "obj" is an
\* object whose members, in order, are specs.  A spec is [name, sk]:
\*   sk = "ok"      {"command": "...", "args": [...]}
\*   sk = "nomap"   a member that is no object (a string, a list, null)
\*   sk = "nocmd"   an object without "command"
\*   sk = "badtype" an object with a wrongly typed field ("args": 5)
NoJson == [j |-> "none", specs |-> <<>>]

ServerNames == {"s1", "s2"}

SpecKinds == {"ok", "nomap", "nocmd", "badtype"}

\* The objects of at most MaxServers members with distinct names.
JsonObjects ==
    {[j |-> "obj", specs |-> s] :
        s \in {q \in SeqsUpTo([name : ServerNames, sk : SpecKinds], MaxServers) :
                 \A a, b \in 1..Len(q) : a # b => q[a].name # q[b].name}}

JsonTexts == {[j |-> "bad", specs |-> <<>>], [j |-> "scalar", specs |-> <<>>]} \cup JsonObjects

\* A value of the raw configuration mapping: ty = "absent" (the key is not
\* in the mapping), "str" or "list"; id names the text; ends_json and
\* starts_file are what str.endswith(".json") and str.startswith("file:")
\* give; json is the text read as JSON.
Absent == [ty |-> "absent", id |-> "", ends_json |-> FALSE, starts_file |-> FALSE, json |-> NoJson]

Str(id) == [ty |-> "str", id |-> id, ends_json |-> FALSE, starts_file |-> FALSE, json |-> [j |-> "bad", specs |-> <<>>]]

List(id) == [ty |-> "list", id |-> id, ends_json |-> FALSE, starts_file |-> FALSE, json |-> NoJson]

Inline(j) == [ty |-> "str", id |-> "inline", ends_json |-> FALSE, starts_file |-> FALSE, json |-> j]

PathRef(id, e, f) == [ty |-> "str", id |-> id, ends_json |-> e, starts_file |-> f, json |-> [j |-> "bad", specs |-> <<>>]]

PathRefs == {PathRef("servers.json", TRUE, FALSE), PathRef("file:servers", FALSE, TRUE),
             PathRef("file:servers.json", TRUE, TRUE)}

KnownKeys == {"output-file", "imports", "reference-file", "mcp-servers", "mcp-tools", "mcp-resources"}

ExtraKeys == {"title", "author"}

Keys == KnownKeys \cup ExtraKeys

EmptyRaw == [k \in Keys |-> Absent]

\* The file an mcp-servers reference names: st = "missing", "dir" (a
\* directory), "noperm" (not readable) or "file" with the JSON text json.
FileStates ==
    {[st |-> s, json |-> NoJson] : s \in {"missing", "dir", "noperm"}}
    \cup {[st |-> "file", json |-> j] : j \in JsonTexts}

\* ------------------------------------------ TemplateConfig.from_raw_config
\* McpServerConfig(**server_config): "" when the model is built, else the
\* exception: a non-mapping after ** is a TypeError, a missing or wrongly
\* typed field is pydantic's ValidationError (a ValueError).
McpServerConfig(spec) ==
    CASE spec.sk = "ok" -> ""
      [] spec.sk = "nomap" -> "TypeError"
      [] OTHER -> "ValidationError"

\* for server_name, server_config in servers_config.items():
\*     mcp_servers[server_name] = McpServerConfig(**server_config)
\* The servers stored before the first exception stay in mcp_servers.
RECURSIVE load_servers(_, _)
load_servers(specs, acc) ==
    IF specs = <<>> THEN [servers |-> acc, exc |-> ""]
    ELSE LET e == McpServerConfig(Head(specs))
         IN IF e # "" THEN [servers |-> acc, exc |-> e]
            ELSE load_servers(Tail(specs), Append(acc, Head(specs).name))

\* json.loads(text) (json.load(f)) followed by the loop over .items().
servers_from_json(j) ==
    CASE j.j = "bad" -> [servers |-> <<>>, exc |-> "JSONDecodeError"]
      [] j.j = "scalar" -> [servers |-> <<>>, exc |-> "AttributeError"]
      [] j.j = "obj" -> load_servers(j.specs, <<>>)
      [] OTHER -> [servers |-> <<>>, exc |-> "TypeError"]

\* with open(file_path, "r") as f: servers_config = json.load(f); the loop.
servers_from_file(fs) ==
    CASE fs.st = "missing" -> [servers |-> <<>>, exc |-> "FileNotFoundError"]
      [] fs.st = "dir" -> [servers |-> <<>>, exc |-> "IsADirectoryError"]
      [] fs.st = "noperm" -> [servers |-> <<>>, exc |-> "PermissionError"]
      [] OTHER -> servers_from_json(fs.json)

\* The except clause of the file branch without FileNotFoundError.
FileCaught_strict == {"JSONDecodeError", "TypeError"}

\* The except clause of the file branch without TypeError.
FileCaught_untyped == {"FileNotFoundError", "JSONDecodeError"}

FileCaught == {"FileNotFoundError", "JSONDecodeError", "TypeError"}

InlineCaught == {"JSONDecodeError", "TypeError"}

\* Lines 93-131: the mcp-servers value v, the referenced file in state fs.
mcp_servers_of(v, fs) ==
    IF v.ty = "absent" THEN [servers |-> <<>>, exc |-> ""]
    ELSE IF v.ty = "str" /\ (v.ends_json \/ v.starts_file)
    THEN LET r == servers_from_file(fs)
         IN IF r.exc \in FileCaught THEN [r EXCEPT !.exc = ""] ELSE r
    ELSE LET r == servers_from_json(v.json)
         IN IF r.exc \in InlineCaught THEN [r EXCEPT !.exc = ""] ELSE r

\* A pop forgotten: mcp-tools stays in config_dict.
popped_keys_short == {"output-file", "imports", "reference-file", "mcp-servers", "mcp-resources"}

\* The keys from_raw_config pops from config_dict (lines 88-90, 97, 133-134).
popped_keys == {"output-file", "imports", "reference-file", "mcp-servers", "mcp-tools", "mcp-resources"}

\* Lines 136-142: Path(reference_file) of a non-string is a TypeError.
reference_file_exc(v) == IF v.ty = "list" THEN "TypeError" ELSE ""

\* cls(...): pydantic validates the typed fields (Optional[str], List[str]).
validation_exc(raw) ==
    IF \/ raw["output-file"].ty = "list"
       \/ raw["imports"].ty = "str"
       \/ raw["mcp-tools"].ty = "str"
       \/ raw["mcp-resources"].ty = "str"
    THEN "ValidationError" ELSE ""

NoConfig ==
    [output_file |-> Absent, imports |-> Absent, reference_file |-> Absent,
     mcp_servers |-> <<>>, mcp_tools |-> Absent, mcp_resources |-> Absent,
     extra_params |-> EmptyRaw]

from_raw_config(raw, fs) ==
    LET ms == mcp_servers_of(raw["mcp-servers"], fs)
        e == IF ms.exc # "" THEN ms.exc
             ELSE IF reference_file_exc(raw["reference-file"]) # ""
             THEN reference_file_exc(raw["reference-file"])
             ELSE validation_exc(raw)
    IN IF e # "" THEN [raised |-> TRUE, exc |-> e, config |-> NoConfig]
       ELSE [raised |-> FALSE, exc |-> "",
             config |-> [output_file |-> raw["output-file"],
                         imports |-> raw["imports"],
                         reference_file |-> raw["reference-file"],
                         mcp_servers |-> ms.servers,
                         mcp_tools |-> raw["mcp-tools"],
                         mcp_resources |-> raw["mcp-resources"],
                         extra_params |-> [k \in Keys |-> IF k \in popped_keys THEN Absent ELSE raw[k]]]]

\* ------------------------------------------------------------- the tokens
Tok(t) == [t |-> t, k |-> "", v |-> Absent]

Line(k, v) == [t |-> "L", k |-> k, v |-> v]

Item(k) == [t |-> "I", k |-> k, v |-> Absent]

\* str.strip(): leading and trailing tokens of the types in ts removed.
RECURSIVE lstrip(_, _)
lstrip(s, ts) == IF s # <<>> /\ Head(s).t \in ts THEN lstrip(Tail(s), ts) ELSE s

RECURSIVE rstrip(_, _)
rstrip(s, ts) ==
    IF s # <<>> /\ s[Len(s)].t \in ts THEN rstrip(SubSeq(s, 1, Len(s) - 1), ts) ELSE s

strip(s, ts) == rstrip(lstrip(s, ts), ts)

Whitespace == {"W"}

\* The characters of the argument of .strip('"""'): the double quote.
QuoteChars == {"Q", "D"}

\* str.replace(old, ""): every non-overlapping occurrence, left to right.
RECURSIVE replace_all(_, _)
replace_all(s, old) ==
    IF old = <<>> \/ Len(s) < Len(old) THEN s
    ELSE IF SubSeq(s, 1, Len(old)) = old
    THEN replace_all(SubSeq(s, Len(old) + 1, Len(s)), old)
    ELSE <<Head(s)>> \o replace_all(Tail(s), old)

\* The index of the first token at or after i that is not whitespace.
RECURSIVE skip_ws(_, _)
skip_ws(s, i) == IF i <= Len(s) /\ s[i].t = "W" THEN skip_ws(s, i + 1) ELSE i

\* #\s*///\s*<word>\s*\n matches at i: the index of the word, else 0.
word_at(s, i, word) ==
    IF s[i].t # "M" THEN 0
    ELSE LET j == skip_ws(s, i + 1)
         IN IF j <= Len(s) /\ s[j].t = word THEN j ELSE 0

NoMatch == [found |-> FALSE, start |-> 0, body |-> 0, end |-> 0]

\* re.search(r"#\s*///\s*<word>\s*\n(.*?)#\s*///", s, re.DOTALL): the
\* leftmost start, then the nearest marker prefix after the word.  start is
\* match.start(), end the index of the closing prefix (match.end() - 1),
\* body the first index of group(1).
re_search(s, word) ==
    LET starts == {i \in 1..Len(s) :
                     /\ word_at(s, i, word) # 0
                     /\ \E e \in (word_at(s, i, word) + 1)..Len(s) : s[e].t = "M"}
    IN IF starts = {} THEN NoMatch
       ELSE LET i == Min(starts)
                j == word_at(s, i, word)
            IN [found |-> TRUE, start |-> i, body |-> j + 1,
                end |-> Min({e \in (j + 1)..Len(s) : s[e].t = "M"})]

\* ------------------------------------- TemplateFile._parse_template_config
\* The first line of a key kept: a later line of the key is skipped.
RECURSIVE parse_template_config_first(_)
parse_template_config_first(lines) ==
    IF lines = <<>> THEN EmptyRaw
    ELSE LET config == parse_template_config_first(Tail(lines))
             line == Head(lines)
         IN IF line.t = "L" THEN [config EXCEPT ![line.k] = line.v] ELSE config

\* One entry per line "key = value", in order: a later line overwrites.
\* Each L token is a line with "=", its v the value the line parses to;
\* every other token is a line without "=" and is skipped.
RECURSIVE parse_template_config(_)
parse_template_config(lines) ==
    IF lines = <<>> THEN EmptyRaw
    ELSE LET config == parse_template_config(SubSeq(lines, 1, Len(lines) - 1))
             line == lines[Len(lines)]
         IN IF line.t = "L" THEN [config EXCEPT ![line.k] = line.v] ELSE config

\* The value of one line, lines 410-431.  A value is a sequence of
\* characters; the result is [ty, value]: ty = "str" with the characters, or
\* ty = "list" with the sequence of the items.
DQ == "\""

SQ == "'"

\* str.strip() / str.strip(chars) of a sequence of characters.
RECURSIVE clstrip(_, _)
clstrip(s, cs) == IF s # <<>> /\ Head(s) \in cs THEN clstrip(Tail(s), cs) ELSE s

RECURSIVE crstrip(_, _)
crstrip(s, cs) ==
    IF s # <<>> /\ s[Len(s)] \in cs THEN crstrip(SubSeq(s, 1, Len(s) - 1), cs) ELSE s

cstrip(s, cs) == crstrip(clstrip(s, cs), cs)

Spaces == {" "}

\* Only the double quote stripped from an item.
ItemQuotes_double == {DQ}

\* The argument of item.strip("\"'"), line 428.
ItemQuotes == {DQ, SQ}

delimited(s, a, b) == s # <<>> /\ Head(s) = a /\ s[Len(s)] = b

\* s[1:-1]
inner_of(s) == SubSeq(s, 2, Len(s) - 1)

\* str.split(sep): the runs between the separators, empty ones included.
RECURSIVE split(_, _, _)
split(s, sep, cur) ==
    IF s = <<>> THEN <<cur>>
    ELSE IF Head(s) = sep THEN <<cur>> \o split(Tail(s), sep, <<>>)
    ELSE split(Tail(s), sep, Append(cur, Head(s)))

\* json.loads of the text between the brackets of an array: strings
\* separated by commas, whitespace allowed around them.  ok = FALSE is
\* JSONDecodeError.
RECURSIVE skip_spaces(_, _)
skip_spaces(s, i) == IF i <= Len(s) /\ s[i] = " " THEN skip_spaces(s, i + 1) ELSE i

closing_quote(s, i) ==
    IF \E c \in i..Len(s) : s[c] = DQ THEN Min({c \in i..Len(s) : s[c] = DQ}) ELSE 0

RECURSIVE json_elements(_, _, _)
json_elements(s, i, acc) ==
    LET j == skip_spaces(s, i)
    IN IF j > Len(s) \/ s[j] # DQ THEN [ok |-> FALSE, elems |-> <<>>]
       ELSE LET c == closing_quote(s, j + 1)
            IN IF c = 0 THEN [ok |-> FALSE, elems |-> <<>>]
               ELSE LET k == skip_spaces(s, c + 1)
                        elems == Append(acc, SubSeq(s, j + 1, c - 1))
                    IN IF k > Len(s) THEN [ok |-> TRUE, elems |-> elems]
                       ELSE IF s[k] = "," THEN json_elements(s, k + 1, elems)
                       ELSE [ok |-> FALSE, elems |-> <<>>]

json_loads(value) ==
    LET s == inner_of(value)
    IN IF skip_spaces(s, 1) > Len(s) THEN [ok |-> TRUE, elems |-> <<>>]
       ELSE json_elements(s, 1, <<>>)

\* Lines 426-429: the fallback of the list branch.
RECURSIVE strip_items(_)
strip_items(its) ==
    IF its = <<>> THEN <<>>
    ELSE IF cstrip(Head(its), Spaces) = <<>> THEN strip_items(Tail(its))
    ELSE <<cstrip(cstrip(Head(its), Spaces), ItemQuotes)>> \o strip_items(Tail(its))

\* Lines 410-431.
parse_value(text) ==
    LET stripped == cstrip(text, Spaces)
        value == IF delimited(stripped, DQ, DQ) \/ delimited(stripped, SQ, SQ)
                 THEN inner_of(stripped) ELSE stripped
    IN IF delimited(value, "[", "]")
       THEN LET list_value == json_loads(value)
            IN IF list_value.ok
               THEN [raised |-> FALSE, exc |-> "", ty |-> "list", value |-> list_value.elems]
               ELSE [raised |-> FALSE, exc |-> "", ty |-> "list",
                     value |-> strip_items(split(inner_of(value), ",", <<>>))]
       ELSE [raised |-> FALSE, exc |-> "", ty |-> "str", value |-> value]

\* ---------------------------------------------------- TemplateFile.from_file
NoTemplateFile ==
    [raised |-> FALSE, exc |-> "", python_code |-> <<>>, template_content |-> <<>>,
     config |-> NoConfig]

RaisedFile(e) == [NoTemplateFile EXCEPT !.raised = TRUE, !.exc = e]

\* Lines 359-364: the dependency block is removed when it is found.
without_uv_script(text) ==
    LET uv_match == re_search(text, "S")
    IN IF uv_match.found
       THEN strip(replace_all(text, SubSeq(text, uv_match.start, uv_match.end)), Whitespace)
       ELSE text

\* Lines 383-384: content[template_match.end():].strip().strip('"""').strip()
template_region(content, m) ==
    strip(strip(strip(SubSeq(content, m.end + 1, Len(content)), Whitespace), QuoteChars), Whitespace)

\* The check of the match left out.
missing_section_never(template_match) == ""

\* No match of the template pattern raises ValueError (lines 370-373).
missing_section(template_match) ==
    IF template_match.found THEN "" ELSE "ValueError"

from_file(d) ==
    IF ~d.exists THEN RaisedFile("FileNotFoundError")
    ELSE LET content == without_uv_script(d.text)
             template_match == re_search(content, "T")
         IN IF missing_section(template_match) # ""
            THEN RaisedFile(missing_section(template_match))
            ELSE LET template_config_raw ==
                         strip(SubSeq(content, template_match.body, template_match.end - 1), Whitespace)
                     config == from_raw_config(parse_template_config(template_config_raw), d.fs)
                 IN IF config.raised THEN RaisedFile(config.exc)
                    ELSE [raised |-> FALSE, exc |-> "",
                          python_code |-> strip(SubSeq(content, 1, template_match.start - 1), Whitespace),
                          template_content |-> template_region(content, template_match),
                          config |-> config.config]

\* ------------------------------------------------- PydanticModuleLoader.load
\* What executing a code region leaves in the module: bindings [name, obj],
\* obj = [id, isclass, model, base, here]: model is issubclass(obj, BaseModel),
\* base is obj == BaseModel, here says the class statement is in the code
\* region (an imported object has here = FALSE).
PydanticBase == [id |-> "BaseModel", isclass |-> TRUE, model |-> TRUE, base |-> TRUE, here |-> FALSE]

ModelClass(id) == [id |-> id, isclass |-> TRUE, model |-> TRUE, base |-> FALSE, here |-> TRUE]

\* A subclass of BaseModel the code region imports (from x import Settings).
ImportedClass(id) == [id |-> id, isclass |-> TRUE, model |-> TRUE, base |-> FALSE, here |-> FALSE]

PlainClass(id) == [id |-> id, isclass |-> TRUE, model |-> FALSE, base |-> FALSE, here |-> TRUE]

Value(id) == [id |-> id, isclass |-> FALSE, model |-> FALSE, base |-> FALSE, here |-> TRUE]

Bind(name, obj) == [name |-> name, obj |-> obj]

Namespaces ==
    { {},
      {Bind("BaseModel", PydanticBase), Bind("Helper", PlainClass("Helper")), Bind("x", Value("x"))},
      {Bind("BaseModel", PydanticBase), Bind("Person", ModelClass("Person"))},
      {Bind("BaseModel", PydanticBase), Bind("Person", ModelClass("Person")),
       Bind("Address", ModelClass("Address")), Bind("Helper", PlainClass("Helper"))},
      {Bind("BaseModel", PydanticBase), Bind("Person", ModelClass("Person")),
       Bind("Settings", ImportedClass("Settings")), Bind("Alias", ModelClass("Person"))},
      {Bind("BaseModel", PydanticBase), Bind("Person", ModelClass("Person")),
       Bind("config", ModelClass("config")), Bind("datetime", ModelClass("datetime")),
       Bind("mcp_tools", ModelClass("mcp_tools"))} }

\* _extract_pydantic_classes: the names of the members that are classes,
\* subclasses of BaseModel and not BaseModel.
extract_pydantic_classes(module) ==
    {b.name : b \in {m \in module : m.obj.isclass /\ m.obj.model /\ ~m.obj.base}}

\* _load_as_module, lines 191-209: sys.modules[module_name] = module comes
\* before exec_module; the finally clause unlinks the temporary file and
\* leaves sys.modules alone.
module_name == "pydantic_module_id"

load_registry(registry) == registry \cup {module_name}

\* The check of the schema map left out.
has_classes_always(cls) == TRUE

\* PydanticModuleInfo.has_classes
has_classes(cls) == cls # {}

\* ------------------------------------------- TemplateRenderer._build_context
BaseNames == {"module", "config", "pydantic_docs", "pydantic_fields", "get_schema_json"}

StdNames == {"datetime", "typing", "pydantic", "json"}

McpNames == {"mcp_tools", "mcp_resources", "mcp_call_tool", "mcp_read_resource"}

ClassNames == {"Person", "Address", "Helper", "BaseModel", "x", "Settings", "Alias"}

Names == BaseNames \cup StdNames \cup McpNames \cup ClassNames \cup {"missing"}

\* dict.update: the names in ns are bound to values of origin tag.
Update(ctx, ns, tag) == [n \in Names |-> IF n \in ns THEN tag ELSE ctx[n]]

EmptyContext == [n \in Names |-> "undef"]

build_context(cls) ==
    Update(Update(Update(EmptyContext, BaseNames, "base"), cls, "class"), StdNames, "std")

\* async_process, lines 471-527: the fallbacks, replaced by the manager's
\* wrappers when self.mcp_manager is set.
context_extension(manager) == IF manager THEN "manager" ELSE "fallback"

\* The extension added only when a manager exists.
render_context_if_manager(cls, manager) ==
    IF manager THEN Update(build_context(cls), McpNames, "manager") ELSE build_context(cls)

\* Every live server called once while the context is built.
context_requests_eager(sess) == {<<s, "tool", TRUE>> : s \in sess}

\* Lines 471-527 and _build_context build dicts and define functions: no
\* request goes to a session while the context is built.
context_requests(sess) == {}

\* render, lines 302-306.
render_context(cls, manager) ==
    Update(build_context(cls), McpNames, context_extension(manager))

\* ------------------------------------------------------- template evaluation
\* A template item k is "<op>:<arg>": print:<name> is {{ name }}, attr:<name>
\* is {{ name.field }}, tool:<server> is {{ mcp_call_tool(server, ...) }},
\* res:<server> is {{ mcp_read_resource(server, ...) }}.
ItemKinds == {"print:Person", "print:missing", "attr:missing", "tool:s1", "res:s2"}

ItemOp(k) ==
    CASE k \in {"print:Person", "print:missing"} -> "print"
      [] k = "attr:missing" -> "attr"
      [] k = "tool:s1" -> "tool"
      [] OTHER -> "res"

ItemArg(k) ==
    CASE k = "print:Person" -> "Person"
      [] k \in {"print:missing", "attr:missing"} -> "missing"
      [] k = "tool:s1" -> "s1"
      [] OTHER -> "s2"

\* The items of a template region, in order (the other tokens are text).
items_of(template_content) == SelectSeq(template_content, LAMBDA tok : tok.t = "I")

\* jinja2.Environment() (line 271) keeps the default undefined type,
\* jinja2.Undefined: printing an undefined name gives "", reading an
\* attribute of it raises UndefinedError.
undefined_exc(op) == IF op = "attr" THEN "UndefinedError" ELSE ""

\* Evaluating a reference to name with the context ctx: the exception, or "".
reference_exc(ctx, name, op) ==
    IF ctx[name] # "undef" THEN "" ELSE undefined_exc(op)

\* ----------------------------------------------------------- tool calls
\* The value a call hands to the template: kind "result" is the session's
\* answer, kind "placeholder" a content list with one text.
SessionResult == [kind |-> "result", text |-> "session result"]

Placeholder(text) == [kind |-> "placeholder", text |-> text]

\* The fallback lambdas of context_extension (lines 475-484).
fallback_call(server) == Placeholder("not connected")

\* McpClientManager.call_tool / read_resource: what the coroutine does when
\* it runs; sent says a request went to the server, ok that it answered.
manager_call(sess, server, ok) ==
    IF server \notin sess
    THEN [raised |-> FALSE, exc |-> "", value |-> Placeholder("not connected"), sent |-> FALSE]
    ELSE IF ok
    THEN [raised |-> FALSE, exc |-> "", value |-> SessionResult, sent |-> TRUE]
    ELSE [raised |-> FALSE, exc |-> "", value |-> Placeholder("session error"), sent |-> TRUE]

\* asyncio.run(coro): RuntimeError when an event loop is already running in
\* the thread (the coroutine never starts), else the coroutine's outcome.
asyncio_run(running, coro) ==
    IF running
    THEN [raised |-> TRUE, exc |-> "RuntimeError", value |-> Placeholder(""), sent |-> FALSE]
    ELSE coro

\* safe_call_tool / safe_read_resource (lines 490-518).
safe_call(running, sess, server, ok) ==
    LET r == asyncio_run(running, manager_call(sess, server, ok))
    IN IF r.raised THEN [r EXCEPT !.raised = FALSE, !.value = Placeholder(r.exc)] ELSE r

\* ------------------------------------------------------------- the inputs
M == Tok("M")

S == Tok("S")

T == Tok("T")

W == Tok("W")

Q == Tok("Q")

D == Tok("D")

C == Tok("C")

Obj(specs) == [j |-> "obj", specs |-> specs]

Srv(name, sk) == [name |-> name, sk |-> sk]

FileWith(j) == [st |-> "file", json |-> j]

FileIn(st) == [st |-> st, json |-> NoJson]

\* Configuration blocks: the lines, and the state of the file they name.
ConfigBlocks ==
    { [lines |-> <<>>, fs |-> FileIn("missing")],
      [lines |-> <<Line("output-file", Str("out.md")), Line("title", Str("a"))>>,
       fs |-> FileIn("missing")],
      [lines |-> <<Line("output-file", Str(""))>>, fs |-> FileIn("missing")],
      [lines |-> <<Line("output-file", Str("a.md")), Line("title", Str("t")),
                   Line("output-file", Str("out.md"))>>,
       fs |-> FileIn("missing")],
      [lines |-> <<Line("mcp-servers", Inline(Obj(<<Srv("s1", "ok")>>)))>>, fs |-> FileIn("missing")],
      [lines |-> <<Line("mcp-servers", Inline(Obj(<<Srv("s1", "ok"), Srv("s2", "ok")>>)))>>,
       fs |-> FileIn("missing")],
      [lines |-> <<Line("mcp-servers", Inline(Obj(<<Srv("s2", "ok"), Srv("s1", "ok")>>)))>>,
       fs |-> FileIn("missing")],
      [lines |-> <<Line("mcp-servers", PathRef("servers.json", TRUE, FALSE))>>,
       fs |-> FileIn("missing")],
      [lines |-> <<Line("mcp-servers", PathRef("servers.json", TRUE, FALSE))>>,
       fs |-> FileWith(Obj(<<Srv("s2", "ok")>>))],
      [lines |-> <<Line("mcp-servers", PathRef("servers.json", TRUE, FALSE))>>,
       fs |-> FileIn("dir")],
      [lines |-> <<Line("mcp-servers", Inline([j |-> "bad", specs |-> <<>>]))>>,
       fs |-> FileIn("missing")],
      [lines |-> <<Line("mcp-servers", Inline(Obj(<<Srv("s1", "nocmd")>>)))>>,
       fs |-> FileIn("missing")] }

Templates == SeqsUpTo({Item(k) : k \in ItemKinds}, MaxTemplate)

Block(lines) == <<M, T>> \o lines \o <<M, W>>

\* Code region, configuration block, template region.
Standard(lines, items) == <<C, W>> \o Block(lines) \o items

OneLine == <<Line("output-file", Str("out.md"))>>

OneItem == <<Item("print:Person")>>

\* The same document in other layouts: with a dependency block, with a
\* block that lacks its end or its word, without a block, with a quoted
\* template, with an empty code region, with double quotes in the template
\* region (a quoted first and last word, two layers of triple quotes).
Layouts ==
    { <<C, W>> \o OneItem,
      <<C, W, M, T>> \o OneLine \o OneItem,
      <<C, W, M>> \o OneLine \o <<M, W>> \o OneItem,
      <<C, W, T>> \o OneLine \o <<M, W>> \o OneItem,
      <<M, S, C, M, W, C>> \o OneItem,
      <<M, S, C, M, W>> \o Standard(OneLine, OneItem),
      <<M, S, C, W>> \o Standard(OneLine, OneItem),
      <<C, W, M, W, T>> \o OneLine \o <<M, W>> \o OneItem,
      <<C, W>> \o Block(OneLine) \o <<Q, W>> \o OneItem \o <<W, Q, W>>,
      Block(OneLine) \o OneItem,
      <<C, W>> \o Block(OneLine) \o <<D>> \o OneItem \o <<D, W>>,
      <<C, W>> \o Block(OneLine) \o <<Q, D>> \o OneItem \o <<D, Q, W>>,
      <<C, W>> \o Block(OneLine) \o <<Q, W, D>> \o OneItem \o <<D, W, Q>>,
      <<C, W>> \o Block(OneLine) \o <<Q, Q, W>> \o OneItem \o <<W, Q, Q>> }

Docs ==
    {[exists |-> TRUE, text |-> Standard(cb.lines, items), fs |-> cb.fs] :
        cb \in ConfigBlocks, items \in Templates}
    \cup {[exists |-> TRUE, text |-> l, fs |-> FileIn("missing")] : l \in Layouts}
    \cup {[exists |-> FALSE, text |-> <<>>, fs |-> FileIn("missing")]}

NoCfgIn == [raw |-> EmptyRaw, fs |-> FileIn("missing")]

NoCfgOut == [done |-> FALSE, raised |-> FALSE, exc |-> "", config |-> NoConfig]

NoLineOut == [done |-> FALSE, raised |-> FALSE, exc |-> "", ty |-> "", value |-> <<>>]

\* ------------------------------------------------------------ the pipeline
Init ==
    /\ pc = "idle"
    /\ loop_running = FALSE
    /\ doc \in Docs
    /\ template_file = NoTemplateFile
    /\ err = ""
    /\ mcp_manager = FALSE
    /\ exit_stack = <<>>
    /\ sessions = {}
    /\ server_tools = {}
    /\ server_resources = {}
    /\ init_idx = 0
    /\ init_phase = ""
    /\ init_outcome = [s \in ServerNames |-> "none"]
    /\ load_result = ""
    /\ module_ns = {}
    /\ sys_modules = {}
    /\ classes = {}
    /\ context = EmptyContext
    /\ tmpl_idx = 0
    /\ returned = <<>>
    /\ requests = {}
    /\ out_dir \in BOOLEAN
    /\ out_files = {}
    /\ n_close = 0
    /\ cfg_in = NoCfgIn
    /\ cfg_out = NoCfgOut
    /\ line_in = <<>>
    /\ line_out = NoLineOut

mgr_vars == <<mcp_manager, exit_stack, sessions, server_tools, server_resources,
              init_idx, init_phase, init_outcome, n_close>>

render_vars == <<load_result, module_ns, sys_modules, classes, context, tmpl_idx, returned, requests>>

out_vars == <<out_dir, out_files>>

cfg_vars == <<cfg_in, cfg_out, line_in, line_out>>

\* process (lines 552-554): asyncio.run(self.async_process()) starts the
\* event loop in which async_process runs.
Process ==
    /\ pc = "idle"
    /\ pc' = "from_file"
    /\ loop_running' = TRUE
    /\ UNCHANGED <<doc, template_file, err, mgr_vars, render_vars, out_vars, cfg_vars>>

\* async_process, line 450: outside the try, an exception leaves at once.
FromFile ==
    /\ pc = "from_file"
    /\ LET tf == from_file(doc)
       IN IF tf.raised
          THEN /\ err' = tf.exc
               /\ pc' = "raised"
               /\ loop_running' = FALSE
               /\ UNCHANGED template_file
          ELSE /\ template_file' = tf
               /\ pc' = "mcp_check"
               /\ UNCHANGED <<err, loop_running>>
    /\ UNCHANGED <<doc, mgr_vars, render_vars, out_vars, cfg_vars>>

servers == template_file.config.mcp_servers

\* Lines 453-457: the manager is created when mcp_servers is not empty.
CreateManager ==
    /\ pc = "mcp_check"
    /\ servers # <<>>
    /\ mcp_manager' = TRUE
    /\ init_idx' = 1
    /\ init_phase' = "launch"
    /\ pc' = "initialize"
    /\ UNCHANGED <<loop_running, doc, template_file, err, exit_stack, sessions, server_tools,
                   server_resources, init_outcome, n_close, render_vars, out_vars, cfg_vars>>

NoManager ==
    /\ pc = "mcp_check"
    /\ servers = <<>>
    /\ pc' = "load"
    /\ UNCHANGED <<loop_running, doc, template_file, err, mgr_vars, render_vars, out_vars, cfg_vars>>

\* ------------------------------------------------ McpClientManager.initialize
server_name == servers[init_idx]

in_loop(phase) ==
    /\ pc = "initialize"
    /\ init_idx <= Len(servers)
    /\ init_phase = phase

\* The try around the whole loop: the first failure ends initialize.
next_server_abort(phase) ==
    /\ init_idx' = IF phase = "ok" THEN init_idx + 1 ELSE Len(template_file.config.mcp_servers) + 1
    /\ init_phase' = "launch"
    /\ init_outcome' = [init_outcome EXCEPT ![template_file.config.mcp_servers[init_idx]] = phase]

\* except Exception as e: print(...); the loop goes on to the next server.
next_server(phase) ==
    /\ init_idx' = init_idx + 1
    /\ init_phase' = "launch"
    /\ init_outcome' = [init_outcome EXCEPT ![server_name] = phase]

init_frame == <<pc, loop_running, doc, template_file, err, mcp_manager, n_close,
                render_vars, out_vars, cfg_vars>>

\* Lines 177-179: stdio_client(params) is entered into the exit stack.
Launch ==
    /\ in_loop("launch")
    /\ \E ok \in BOOLEAN :
         IF ok
         THEN /\ exit_stack' = Append(exit_stack, <<server_name, "transport">>)
              /\ init_phase' = "handshake"
              /\ UNCHANGED <<init_idx, init_outcome>>
         ELSE /\ next_server("launch")
              /\ UNCHANGED exit_stack
    /\ UNCHANGED <<sessions, server_tools, server_resources, init_frame>>

\* The session is stored in sessions once session.initialize() returned.
store_session(sess, name) == sess \cup {name}

\* Lines 180-185: ClientSession is entered into the exit stack, then
\* session.initialize() and self.sessions[server_name] = session.
Handshake ==
    /\ in_loop("handshake")
    /\ exit_stack' = Append(exit_stack, <<server_name, "session">>)
    /\ \E ok \in BOOLEAN :
         IF ok
         THEN /\ sessions' = store_session(sessions, server_name)
              /\ init_phase' = "tools"
              /\ UNCHANGED <<init_idx, init_outcome>>
         ELSE /\ next_server("handshake")
              /\ UNCHANGED sessions
    /\ UNCHANGED <<server_tools, server_resources, init_frame>>

\* Lines 188-189: list_tools.
ListTools ==
    /\ in_loop("tools")
    /\ \E ok \in BOOLEAN :
         IF ok
         THEN /\ server_tools' = server_tools \cup {server_name}
              /\ init_phase' = "resources"
              /\ UNCHANGED <<init_idx, init_outcome>>
         ELSE /\ next_server("tools")
              /\ UNCHANGED server_tools
    /\ UNCHANGED <<exit_stack, sessions, server_resources, init_frame>>

\* Lines 191-198: list_resources, then the loop goes on.
ListResources ==
    /\ in_loop("resources")
    /\ \E ok \in BOOLEAN :
         IF ok
         THEN /\ server_resources' = server_resources \cup {server_name}
              /\ next_server("ok")
         ELSE /\ next_server("resources")
              /\ UNCHANGED server_resources
    /\ UNCHANGED <<exit_stack, sessions, server_tools, init_frame>>

\* The loop is over: initialize returns to async_process (line 457).
InitializeReturns ==
    /\ pc = "initialize"
    /\ init_idx > Len(servers)
    /\ pc' = "load"
    /\ UNCHANGED <<loop_running, doc, template_file, err, mgr_vars, render_vars, out_vars, cfg_vars>>

\* ----------------------------------------- async_process, the try block
\* No finally clause: an exception leaves async_process at once.
raise_past_finally(e) ==
    /\ err' = e
    /\ pc' = "raised"

\* An exception in the try block reaches the finally clause.
raise_in_try(e) ==
    /\ err' = e
    /\ pc' = "finally"

\* Lines 464-469: the code region is executed; no class is a ValueError.
\* A code region without code leaves an empty module.
Load ==
    /\ pc = "load"
    /\ \/ /\ C \in SeqToSet(template_file.python_code)
          /\ raise_in_try("ExecError")
          /\ load_result' = "raised"
          /\ sys_modules' = load_registry(sys_modules)
          /\ UNCHANGED <<module_ns, classes>>
       \/ \E module \in (IF C \in SeqToSet(template_file.python_code) THEN Namespaces ELSE {{}}) :
            /\ module_ns' = module
            /\ sys_modules' = load_registry(sys_modules)
            /\ classes' = extract_pydantic_classes(module)
            /\ load_result' = "ok"
            /\ IF has_classes(classes')
               THEN /\ pc' = "render"
                    /\ UNCHANGED err
               ELSE raise_in_try("ValueError")
    /\ UNCHANGED <<loop_running, doc, template_file, mgr_vars, context, tmpl_idx, returned,
                   requests, out_vars, cfg_vars>>

\* Lines 471-531 and render, lines 299-306: the context is built.
StartRender ==
    /\ pc = "render"
    /\ context' = render_context(classes, mcp_manager)
    /\ requests' = requests \cup context_requests(sessions)
    /\ tmpl_idx' = 1
    /\ pc' = "evaluate"
    /\ UNCHANGED <<loop_running, doc, template_file, err, mgr_vars, load_result, module_ns,
                   sys_modules, classes, returned, out_vars, cfg_vars>>

items == items_of(template_file.template_content)

\* What mcp_call_tool / mcp_read_resource of the context returns.
mcp_call(ctx, name, running, sess, server, ok) ==
    IF ctx[name] = "fallback"
    THEN [raised |-> FALSE, exc |-> "", value |-> fallback_call(server), sent |-> FALSE]
    ELSE safe_call(running, sess, server, ok)

\* template.render(**context), line 309: one item of the template.
Evaluate ==
    /\ pc = "evaluate"
    /\ tmpl_idx <= Len(items)
    /\ LET k == items[tmpl_idx].k
           op == ItemOp(k)
           arg == ItemArg(k)
       IN IF op \in {"print", "attr"}
          THEN IF reference_exc(context, arg, op) # ""
               THEN /\ raise_in_try(reference_exc(context, arg, op))
                    /\ UNCHANGED <<tmpl_idx, returned, requests>>
               ELSE /\ returned' = Append(returned,
                           [item |-> k, live |-> FALSE, value |-> [kind |-> "text", text |-> context[arg]]])
                    /\ tmpl_idx' = tmpl_idx + 1
                    /\ UNCHANGED <<pc, err, requests>>
          ELSE \E ok \in BOOLEAN :
                 LET r == mcp_call(context, IF op = "tool" THEN "mcp_call_tool" ELSE "mcp_read_resource",
                                   loop_running, sessions, arg, ok)
                 IN /\ returned' = Append(returned,
                           [item |-> k, live |-> arg \in sessions, value |-> r.value])
                    /\ requests' = IF r.sent THEN requests \cup {<<arg, op, ok>>} ELSE requests
                    /\ tmpl_idx' = tmpl_idx + 1
                    /\ UNCHANGED <<pc, err>>
    /\ UNCHANGED <<loop_running, doc, template_file, mgr_vars, load_result, module_ns, sys_modules,
                   classes, context,
                   out_vars, cfg_vars>>

\* The configured name ignored.
output_filename_stem(config) == "stem.md"

\* The output written while the template is still being evaluated.
render_started == pc = "evaluate"

\* self.renderer.render returned (lines 529-531): every item is evaluated.
render_returned == pc = "evaluate" /\ tmpl_idx > Len(items)

\* Lines 534-536: output_file or <stem>.md.
output_filename(config) ==
    IF config.output_file.ty = "str" /\ config.output_file.id # ""
    THEN config.output_file.id ELSE "stem.md"

\* Lines 533-546: mkdir, write_text; either may raise OSError.
Write ==
    /\ render_returned
    /\ \/ /\ out_dir' = TRUE
          /\ out_files' = out_files \cup {output_filename(template_file.config)}
          /\ pc' = "finally"
          /\ UNCHANGED err
       \/ /\ raise_in_try("OSError")
          /\ UNCHANGED <<out_dir, out_files>>
       \/ /\ out_dir' = TRUE
          /\ raise_in_try("OSError")
          /\ UNCHANGED out_files
    /\ UNCHANGED <<loop_running, doc, template_file, mgr_vars, render_vars, cfg_vars>>

\* McpClientManager.close: exit_stack.aclose() leaves every entered context.
close(stack) == <<>>

\* Lines 547-550: finally, close when the manager is set; then async_process
\* returns, or raises the pending exception or the one close raised.
Finally ==
    /\ pc = "finally"
    /\ IF mcp_manager
       THEN /\ exit_stack' = close(exit_stack)
            /\ n_close' = n_close + 1
            /\ \E close_ok \in BOOLEAN :
                 /\ err' = IF close_ok THEN err ELSE "CloseError"
                 /\ pc' = IF err' = "" THEN "done" ELSE "raised"
       ELSE /\ pc' = IF err = "" THEN "done" ELSE "raised"
            /\ UNCHANGED <<exit_stack, n_close, err>>
    /\ loop_running' = FALSE
    /\ UNCHANGED <<doc, template_file, mcp_manager, sessions, server_tools, server_resources,
                   init_idx, init_phase, init_outcome, render_vars, out_vars, cfg_vars>>

Next ==
    \/ Process
    \/ FromFile
    \/ CreateManager
    \/ NoManager
    \/ Launch
    \/ Handshake
    \/ ListTools
    \/ ListResources
    \/ InitializeReturns
    \/ Load
    \/ StartRender
    \/ Evaluate
    \/ Write
    \/ Finally

Spec == Init /\ [][Next]_vars

\* ------------------------------------------- from_raw_config on its own
\* The mcp-servers values: absent, a list, a plain string, inline JSON, a
\* reference to a file.
ServerValues == {Absent, List("l"), Str("plain")} \cup {Inline(j) : j \in JsonTexts} \cup PathRefs

\* A raw mapping: the mcp-servers value d and the other seven values.
Raw(a, b, c, d, e, f, g, h) ==
    ("output-file" :> a) @@ ("imports" :> b) @@ ("reference-file" :> c) @@ ("mcp-servers" :> d)
    @@ ("mcp-tools" :> e) @@ ("mcp-resources" :> f) @@ ("title" :> g) @@ ("author" :> h)

\* Every combination of the other keys, with a few mcp-servers values.
RawConfigs ==
    { Raw(a, b, c, d, e, f, g, h) :
        a \in {Absent, Str("out.md"), List("l")},
        b \in {Absent, List("imports"), Str("a.py")},
        c \in {Absent, Str("ref.md")},
        d \in {Absent, Inline(Obj(<<Srv("s1", "ok")>>)), PathRef("servers.json", TRUE, FALSE)},
        e \in {Absent, List("tools")},
        f \in {Absent, List("uris")},
        g \in {Absent, Str("t"), List("l")},
        h \in {Absent, Str("me")} }

\* Every mcp-servers value, with a few combinations of the other keys.
ServerConfigs ==
    { Raw(a, Absent, Absent, d, e, Absent, g, Absent) :
        a \in {Absent, Str("out.md")},
        d \in ServerValues,
        e \in {Absent, List("tools")},
        g \in {Absent, Str("t")} }

\* The referenced file matters when the value names one.
ConfigInputs ==
    {[raw |-> r, fs |-> FileIn("missing")] : r \in RawConfigs \cup ServerConfigs}
    \cup {[raw |-> r, fs |-> f] : r \in {q \in RawConfigs \cup ServerConfigs : q["mcp-servers"] \in PathRefs},
                                 f \in FileStates}

InitConfig ==
    /\ pc = "config"
    /\ loop_running = FALSE
    /\ doc = [exists |-> FALSE, text |-> <<>>, fs |-> FileIn("missing")]
    /\ template_file = NoTemplateFile
    /\ err = ""
    /\ mcp_manager = FALSE
    /\ exit_stack = <<>>
    /\ sessions = {}
    /\ server_tools = {}
    /\ server_resources = {}
    /\ init_idx = 0
    /\ init_phase = ""
    /\ init_outcome = [s \in ServerNames |-> "none"]
    /\ load_result = ""
    /\ module_ns = {}
    /\ sys_modules = {}
    /\ classes = {}
    /\ context = EmptyContext
    /\ tmpl_idx = 0
    /\ returned = <<>>
    /\ requests = {}
    /\ out_dir = FALSE
    /\ out_files = {}
    /\ n_close = 0
    /\ cfg_in \in ConfigInputs
    /\ cfg_out = NoCfgOut
    /\ line_in = <<>>
    /\ line_out = NoLineOut

FromRawConfig ==
    /\ pc = "config"
    /\ ~cfg_out.done
    /\ LET r == from_raw_config(cfg_in.raw, cfg_in.fs)
       IN cfg_out' = [done |-> TRUE, raised |-> r.raised, exc |-> r.exc, config |-> r.config]
    /\ UNCHANGED <<pc, loop_running, doc, template_file, err, mgr_vars, render_vars, out_vars, cfg_in,
                   line_in, line_out>>

NextConfig == FromRawConfig

SpecConfig == InitConfig /\ [][NextConfig]_vars

\* ---------------------------------------- the value of a line on its own
InnerChars == {",", DQ, SQ, " ", "a"}

Bracketed(inner) == <<"[">> \o inner \o <<"]">>

\* Longer values: the list of the two imports, as JSON, spaced, with single
\* quotes, bare, with an unbalanced quote, with an empty item.
LongValues ==
    { Bracketed(<<DQ, "a", DQ, ",", " ", DQ, "b", DQ>>),
      Bracketed(<<" ", DQ, "b", DQ, " ", ",", DQ, "a", DQ, " ">>),
      Bracketed(<<SQ, "a", SQ, ",", " ", SQ, "b", SQ>>),
      Bracketed(<<"b", ",", " ", "a">>),
      Bracketed(<<DQ, "a", DQ, ",", " ", DQ, "b">>),
      Bracketed(<<"b", ",", " ", ",", DQ, " ", "a", " ", DQ, ",">>) }

\* Values that are no list: bare, quoted, a quoted list, a lone bracket.
ScalarValues ==
    { <<>>, <<"a">>, <<" ", "a", "b", " ">>, <<DQ, "a", DQ>>, <<SQ, "a", SQ>>, <<DQ>>,
      <<"[", "a">>, <<"a", "]">>, <<DQ, "[", "a", "]", DQ>> }

Values == {Bracketed(inner) : inner \in SeqsUpTo(InnerChars, MaxValue)} \cup LongValues \cup ScalarValues

InitValue ==
    /\ pc = "value"
    /\ loop_running = FALSE
    /\ doc = [exists |-> FALSE, text |-> <<>>, fs |-> FileIn("missing")]
    /\ template_file = NoTemplateFile
    /\ err = ""
    /\ mcp_manager = FALSE
    /\ exit_stack = <<>>
    /\ sessions = {}
    /\ server_tools = {}
    /\ server_resources = {}
    /\ init_idx = 0
    /\ init_phase = ""
    /\ init_outcome = [s \in ServerNames |-> "none"]
    /\ load_result = ""
    /\ module_ns = {}
    /\ sys_modules = {}
    /\ classes = {}
    /\ context = EmptyContext
    /\ tmpl_idx = 0
    /\ returned = <<>>
    /\ requests = {}
    /\ out_dir = FALSE
    /\ out_files = {}
    /\ n_close = 0
    /\ cfg_in = NoCfgIn
    /\ cfg_out = NoCfgOut
    /\ line_in \in Values
    /\ line_out = NoLineOut

ParseValue ==
    /\ pc = "value"
    /\ ~line_out.done
    /\ LET r == parse_value(line_in)
       IN line_out' = [done |-> TRUE, raised |-> r.raised, exc |-> r.exc, ty |-> r.ty, value |-> r.value]
    /\ UNCHANGED <<pc, loop_running, doc, template_file, err, mgr_vars, render_vars, out_vars,
                   cfg_in, cfg_out, line_in>>

NextValue == ParseValue

SpecValue == InitValue /\ [][NextValue]_vars

\* ------------------------------------------------------------- the claims
ended == pc \in {"done", "raised"}

\* C1: once async_process has created the session manager, every end of
\* async_process (a return or a raise) comes after McpClientManager.close,
\* and no context entered into the exit stack is still open.
C1_ClosedOnEveryExit ==
    (ended /\ mcp_manager) => (n_close = 1 /\ exit_stack = <<>>)

\* C1 witness: async_process raised (no schema class) after a session was
\* opened, and close ran.
C1_Witness ==
    /\ pc = "raised"
    /\ err = "ValueError"
    /\ mcp_manager
    /\ sessions # {}
    /\ n_close = 1

IsCall(k) == ItemOp(k) \in {"tool", "res"}

\* C2: a call of mcp_call_tool or mcp_read_resource for a server without a
\* live session returns the placeholder that says the server is not
\* connected, with or without a session manager.
C2_NotConnectedPlaceholder ==
    \A i \in 1..Len(returned) :
        (IsCall(returned[i].item) /\ ~returned[i].live)
            => returned[i].value = Placeholder("not connected")

\* C3: a call for a server with a live session returns the session's
\* result, or the error placeholder when the session call itself failed;
\* in both cases the request was sent and answered before the value came back.
C3_LiveCallReturnsSessionResult ==
    \A i \in 1..Len(returned) :
        (IsCall(returned[i].item) /\ returned[i].live)
            => \/ /\ returned[i].value = SessionResult
                  /\ <<ItemArg(returned[i].item), ItemOp(returned[i].item), TRUE>> \in requests
               \/ /\ returned[i].value = Placeholder("session error")
                  /\ <<ItemArg(returned[i].item), ItemOp(returned[i].item), FALSE>> \in requests

\* A configuration block in a text: a marker line with the word template
\* and, later, an end marker.
HasConfigBlock(text) ==
    \E i, w, j \in 1..Len(text) :
        /\ i < w /\ w < j
        /\ text[i].t = "M"
        /\ \A x \in (i + 1)..(w - 1) : text[x].t = "W"
        /\ text[w].t = "T"
        /\ text[j].t = "M"

from_file_returned == pc \notin {"idle", "from_file", "config"}

\* C4: from_file on an existing document without a configuration block
\* raises ValueError; no template item is evaluated and no file is written.
C4_MissingSectionRaises ==
    (from_file_returned /\ doc.exists /\ ~HasConfigBlock(doc.text))
        => /\ pc = "raised"
           /\ err = "ValueError"
           /\ tmpl_idx = 0
           /\ returned = <<>>
           /\ out_files = {}

\* C4 witness: a document whose block has its start marker and no end
\* marker was parsed and async_process raised.
C4_Witness ==
    /\ pc = "raised"
    /\ doc.exists
    /\ \E i \in 1..Len(doc.text) : doc.text[i].t = "T"
    /\ ~HasConfigBlock(doc.text)

\* C5: when the code region executes and yields no schema class, load is
\* followed by the no-schema ValueError: async_process never returns
\* normally, no context is built, no item is evaluated, no file is written.
C5_NoSchemaRaises ==
    (load_result = "ok" /\ classes = {})
        => /\ pc \in {"finally", "raised"}
           /\ (pc = "finally" => err = "ValueError")
           /\ err # ""
           /\ context = EmptyContext
           /\ tmpl_idx = 0
           /\ returned = <<>>
           /\ out_files = {}

\* C5 witness: a code region with classes, none of them a schema class, was
\* executed and async_process raised.
C5_Witness ==
    /\ pc = "raised"
    /\ load_result = "ok"
    /\ classes = {}
    /\ C \in SeqToSet(template_file.python_code)
    /\ err = "ValueError"

\* The item at index i refers to a name the context does not bind.
UndefinedReference(i) ==
    /\ ItemOp(items[i].k) \in {"print", "attr"}
    /\ context[ItemArg(items[i].k)] = "undef"

\* C6: evaluation never gets past a reference to an undefined name: the
\* render fails there, and no file is written.
C6_UndefinedReferenceFails ==
    \A i \in 1..Len(items) :
        (pc \in {"evaluate", "finally", "done", "raised"} /\ tmpl_idx > i)
            => ~UndefinedReference(i)

\* The other values of the mapping have the types the fields take.
WellTyped(raw) ==
    /\ raw["output-file"].ty # "list"
    /\ raw["imports"].ty # "str"
    /\ raw["mcp-tools"].ty # "str"
    /\ raw["mcp-resources"].ty # "str"
    /\ raw["reference-file"].ty # "list"

AllOk(j) == j.j = "obj" /\ \A i \in 1..Len(j.specs) : j.specs[i].sk = "ok"

\* The mcp-servers value is malformed inline JSON or names an unreadable file.
Malformed(in) ==
    LET v == in.raw["mcp-servers"]
    IN /\ v.ty = "str"
       /\ IF v.ends_json \/ v.starts_file
          THEN in.fs.st # "file" \/ in.fs.json.j = "bad"
          ELSE ~AllOk(v.json)

\* C7: for a malformed mcp-servers value, from_raw_config returns a
\* configuration with an empty mcp_servers mapping and does not raise.
C7_MalformedServersDegrade ==
    (cfg_out.done /\ WellTyped(cfg_in.raw) /\ Malformed(cfg_in))
        => (~cfg_out.raised /\ cfg_out.config.mcp_servers = <<>>)

initialize_returned == mcp_manager /\ pc # "initialize"

\* C8: initialize always runs to its end, whichever servers failed: it has
\* attempted every configured server, and every server whose launch,
\* handshake and catalog queries succeeded is in sessions.
C8_InitializeDegrades ==
    initialize_returned
        => /\ init_idx = Len(servers) + 1
           /\ \A s \in SeqToSet(servers) :
                /\ init_outcome[s] # "none"
                /\ init_outcome[s] = "ok" => s \in sessions

\* C8 witness: the first declared server failed and the second is live.
C8_Witness ==
    /\ initialize_returned
    /\ Len(servers) = 2
    /\ init_outcome[servers[1]] \notin {"ok", "none"}
    /\ init_outcome[servers[2]] = "ok"
    /\ servers[2] \in sessions

\* C9: after initialize returned, every server in sessions is in
\* server_tools and in server_resources, and a server whose launch,
\* handshake or catalog query raised is in none of the three.
C9_SessionsFullyInitialized ==
    initialize_returned
        => /\ sessions \subseteq (server_tools \cap server_resources)
           /\ \A s \in SeqToSet(servers) :
                init_outcome[s] # "ok" => s \notin (sessions \cup server_tools \cup server_resources)

\* C10: in the configuration from_raw_config returns, extra_params holds
\* every key other than the six recognized ones with the value of the raw
\* mapping, and none of the six.
C10_ExtraParams ==
    (cfg_out.done /\ ~cfg_out.raised)
        => \A k \in Keys :
             cfg_out.config.extra_params[k] = IF k \in KnownKeys THEN Absent ELSE cfg_in.raw[k]

\* C10 witness: a mapping with recognized and unrecognized keys was converted.
C10_Witness ==
    /\ cfg_out.done
    /\ ~cfg_out.raised
    /\ cfg_in.raw["title"].ty = "list"
    /\ cfg_in.raw["author"].ty = "str"
    /\ cfg_in.raw["mcp-tools"].ty = "list"
    /\ cfg_in.raw["mcp-servers"].ty = "str"
    /\ cfg_out.config.extra_params["title"] = cfg_in.raw["title"]

\* A class the schema map is to hold: a subclass of the base class, not the
\* base class itself.
Qualifying(o) == o.isclass /\ o.model /\ ~o.base

\* The qualifying classes whose class statement is in the code region.
DefinedSchemas(members) == {b.obj.id : b \in {m \in members : Qualifying(m.obj) /\ m.obj.here}}

\* C11: the schema map load returns has exactly one entry per qualifying
\* class defined in the code region (N entries for N classes), and no entry
\* for the base class, whatever else the module namespace binds.
C11_OneEntryPerDefinedSchema ==
    load_result = "ok"
        => /\ Cardinality(classes) = Cardinality(DefinedSchemas(module_ns))
           /\ \A b \in module_ns : b.name \in classes => (Qualifying(b.obj) /\ b.obj.here)

\* C18: when evaluation starts, every name of the schema map is bound in the
\* context to the schema's class.
C18_SchemaNamesBound ==
    pc = "evaluate" => \A n \in classes : context[n] = "class"

\* C19: when evaluation starts, the context binds mcp_tools, mcp_resources,
\* mcp_call_tool and mcp_read_resource: to the manager's wrappers when a
\* manager exists, to the fallbacks otherwise.
C19_McpNamesInContext ==
    pc = "evaluate"
        => \A n \in McpNames : context[n] = IF mcp_manager THEN "manager" ELSE "fallback"

\* C19 witness: evaluation started after every configured server failed to
\* connect.
C19_Witness ==
    /\ pc = "evaluate"
    /\ mcp_manager
    /\ Len(servers) = 2
    /\ sessions = {}
    /\ context["mcp_call_tool"] = "manager"

\* C20: a tool server transport is opened only after the code region has
\* been executed and has yielded at least one schema class.
C20_NoLaunchBeforeSchema ==
    exit_stack # <<>> => (load_result = "ok" /\ classes # {})

\* The configuration gives output-file: a non-empty name.
GivesOutputFile(config) == config.output_file.ty = "str" /\ config.output_file.id # ""

\* C13: when async_process returns, the output directory exists and holds
\* exactly one written file: <output-file> when the configuration gives it,
\* <stem>.md when it does not.
C13_OneOutputFile ==
    pc = "done"
        => /\ out_dir
           /\ out_files = {IF GivesOutputFile(template_file.config)
                            THEN template_file.config.output_file.id ELSE "stem.md"}

\* C13 witness: a render of a document that names its output file returned.
C13_Witness ==
    /\ pc = "done"
    /\ GivesOutputFile(template_file.config)
    /\ out_files = {"out.md"}

from_file_ok == from_file_returned /\ ~from_file(doc).raised

\* The text after the closing marker of the configuration block.
AfterBlock(text) ==
    LET content == without_uv_script(text)
        m == re_search(content, "T")
    IN SubSeq(content, m.end + 1, Len(content))

\* Surrounding whitespace removed, then one triple quote at the start and
\* one at the end when present, then whitespace again.
OneLayer(s) ==
    LET a == strip(s, Whitespace)
        b == IF a # <<>> /\ Head(a).t = "Q" THEN Tail(a) ELSE a
        c == IF b # <<>> /\ b[Len(b)].t = "Q" THEN SubSeq(b, 1, Len(b) - 1) ELSE b
    IN strip(c, Whitespace)

\* C14: the template region from_file returns is the text after the closing
\* marker less surrounding whitespace and one layer of triple quotes; the
\* double quotes of the body and a second layer of quotes are kept.
C14_OneQuoteLayer ==
    from_file_ok => template_file.template_content = OneLayer(AfterBlock(doc.text))

\* The mcp-servers line of the document names a file, and the file is absent.
MissingServersFile(d) ==
    /\ d.exists
    /\ HasConfigBlock(d.text)
    /\ d.fs.st = "missing"
    /\ \E i \in 1..Len(d.text) :
         /\ d.text[i].t = "L"
         /\ d.text[i].k = "mcp-servers"
         /\ d.text[i].v.ty = "str"
         /\ (d.text[i].v.ends_json \/ d.text[i].v.starts_file)

\* C15: for a document whose mcp-servers names an absent file, from_file
\* returns with an empty mcp_servers, no manager is created, no transport is
\* opened, no request is sent, the context holds the fallbacks, the calls
\* return the not-connected placeholder, and the render fails only for a
\* reason of the code region, the template or the output file.
C15_MissingFileNoServers ==
    (MissingServersFile(doc) /\ from_file_returned)
        => /\ servers = <<>>
           /\ ~mcp_manager
           /\ exit_stack = <<>>
           /\ requests = {}
           /\ load_result = "" => pc \in {"mcp_check", "load"}
           /\ context # EmptyContext => \A n \in McpNames : context[n] = "fallback"
           /\ \A i \in 1..Len(returned) :
                IsCall(returned[i].item) => returned[i].value = Placeholder("not connected")
           /\ pc = "raised" => err \in {"ExecError", "ValueError", "UndefinedError", "OSError"}

\* C15 witness: such a render evaluated a tool call and wrote its output.
C15_Witness ==
    /\ pc = "done"
    /\ MissingServersFile(doc)
    /\ out_files # {}
    /\ \E i \in 1..Len(returned) : IsCall(returned[i].item)

Count(text, t) == Cardinality({i \in 1..Len(text) : text[i].t = t})

Max(xs) == CHOOSE x \in xs : \A y \in xs : x >= y

Markers(text) == {i \in 1..Len(text) : text[i].t = "M"}

TIdx(text) == CHOOSE i \in 1..Len(text) : text[i].t = "T"

\* The markers that open and close the configuration block, and the marker
\* that closes the dependency block (0 without a dependency block).
OpenIdx(text) == Max({m \in Markers(text) : m < TIdx(text)})

CloseIdx(text) == Min({m \in Markers(text) : m > TIdx(text)})

DepEnd(text) == IF Count(text, "S") = 1 THEN Min({m \in Markers(text) : m > 2}) ELSE 0

\* A well-formed document: an optional leading dependency block, the code
\* region, one configuration block of "# key = value" lines, the template
\* region; markers occur nowhere else and no key occurs on two lines.
WellFormed(text) ==
    /\ Count(text, "T") = 1
    /\ Count(text, "S") <= 1
    /\ Count(text, "M") = 2 + 2 * Count(text, "S")
    /\ Count(text, "S") = 1 => (text[1].t = "M" /\ text[2].t = "S")
    /\ HasConfigBlock(text)
    /\ Cardinality({m \in Markers(text) : m < TIdx(text)}) = 1 + 2 * Count(text, "S")
    /\ \A i \in (TIdx(text) + 1)..(CloseIdx(text) - 1) : text[i].t \in {"L", "W"}
    /\ \A i, j \in (TIdx(text) + 1)..(CloseIdx(text) - 1) :
         (text[i].t = "L" /\ text[j].t = "L" /\ i # j) => text[i].k # text[j].k

\* The configuration holds the value v the line "# k = v" gives for k.
ConfigHolds(config, k, v) ==
    CASE k = "output-file" -> config.output_file = v
      [] k = "imports" -> config.imports = v
      [] k = "reference-file" -> config.reference_file = v
      [] k = "mcp-tools" -> config.mcp_tools = v
      [] k = "mcp-resources" -> config.mcp_resources = v
      [] k = "mcp-servers" ->
            (v.ty = "str" /\ ~v.ends_json /\ ~v.starts_file /\ AllOk(v.json))
                => config.mcp_servers = [i \in 1..Len(v.json.specs) |-> v.json.specs[i].name]
      [] OTHER -> config.extra_params[k] = v

\* C17: for a well-formed document, the code region from_file returns is the
\* text before the configuration block (less the dependency block and
\* surrounding whitespace), the configuration holds every line of the block,
\* and the template region is the text after the block less surrounding
\* whitespace and one layer of triple quotes: the three parts, in this
\* order, account for the document.
C17_RoundTrip ==
    (from_file_ok /\ WellFormed(doc.text))
        => /\ template_file.python_code =
                strip(SubSeq(doc.text, DepEnd(doc.text) + 1, OpenIdx(doc.text) - 1), Whitespace)
           /\ \A i \in (TIdx(doc.text) + 1)..(CloseIdx(doc.text) - 1) :
                doc.text[i].t = "L"
                    => ConfigHolds(template_file.config, doc.text[i].k, doc.text[i].v)
           /\ template_file.template_content =
                OneLayer(SubSeq(doc.text, CloseIdx(doc.text) + 1, Len(doc.text)))

\* C12: an object of server specs given inline and the same object in a
\* referenced file give the same result: both raise the same exception, or
\* both return, with equal mcp_servers and an equal configuration.
C12_InlineFileEquivalent ==
    (/\ cfg_out.done
     /\ cfg_in.raw["mcp-servers"].ty = "str"
     /\ cfg_in.raw["mcp-servers"].id = "inline"
     /\ cfg_in.raw["mcp-servers"].json.j = "obj")
        => \A p \in PathRefs :
             LET r == from_raw_config([cfg_in.raw EXCEPT !["mcp-servers"] = p],
                                      FileWith(cfg_in.raw["mcp-servers"].json))
             IN /\ r.raised = cfg_out.raised
                /\ r.exc = cfg_out.exc
                /\ r.config = cfg_out.config

\* C12 witness: an inline object whose second spec is no mapping was
\* converted, and the first server is in the mapping.
C12_Witness ==
    /\ cfg_out.done
    /\ ~cfg_out.raised
    /\ cfg_in.raw["mcp-servers"].id = "inline"
    /\ Len(cfg_in.raw["mcp-servers"].json.specs) = 2
    /\ cfg_in.raw["mcp-servers"].json.specs[2].sk = "nomap"
    /\ Len(cfg_out.config.mcp_servers) = 1

BracketDelimited(value) == delimited(cstrip(value, Spaces), "[", "]")

\* The text between two neighbouring commas (or an end) of s.
Bounds(s) == {0, Len(s) + 1} \cup {i \in 1..Len(s) : s[i] = ","}

ItemAt(s, a) == SubSeq(s, a + 1, Min({b \in Bounds(s) : b > a}) - 1)

\* The starts of the items that are not empty or blank, in written order.
ItemStarts(s) == {a \in Bounds(s) : a <= Len(s) /\ \E i \in 1..Len(ItemAt(s, a)) : ItemAt(s, a)[i] # " "}

RECURSIVE InOrder(_, _)
InOrder(s, starts) ==
    IF starts = {} THEN <<>>
    ELSE <<cstrip(cstrip(ItemAt(s, Min(starts)), {" "}), {DQ, SQ})>> \o InOrder(s, starts \ {Min(starts)})

BlockLines(text) == {i \in (TIdx(text) + 1)..(CloseIdx(text) - 1) : text[i].t = "L"}

\* C21: the configuration from_file returns holds, for every key of the
\* block, the value of the last line of that key; a key on one line keeps
\* its value.
C21_LastWins ==
    from_file_ok
        => \A i \in BlockLines(doc.text) :
             (\A j \in BlockLines(doc.text) : doc.text[j].k = doc.text[i].k => j <= i)
                 => ConfigHolds(template_file.config, doc.text[i].k, doc.text[i].v)

\* C21 witness: a block with two output-file lines and a title line between
\* them was parsed.
C21_Witness ==
    /\ from_file_ok
    /\ Cardinality({i \in BlockLines(doc.text) : doc.text[i].k = "output-file"}) = 2
    /\ template_file.config.output_file = Str("out.md")
    /\ template_file.config.extra_params["title"] = Str("t")

\* C22: load leaves sys.modules as it was, whether the code region executes
\* or raises.
C22_RegistryUnchanged ==
    sys_modules = {}

\* C23: every call_tool or read_resource request sent to a server was sent
\* by an evaluated item of the template that calls that server: none is
\* sent while the context is built, before evaluation or after it.
C23_RequestsOnlyFromTemplate ==
    \A r \in requests :
        \E i \in 1..Len(returned) :
            /\ IsCall(returned[i].item)
            /\ ItemArg(returned[i].item) = r[1]
            /\ ItemOp(returned[i].item) = r[2]

\* C23 witness: the context was built with a live session and evaluation
\* starts with a call of that server's tool.
C23_Witness ==
    /\ pc = "evaluate"
    /\ tmpl_idx = 1
    /\ "s1" \in sessions
    /\ context["mcp_call_tool"] = "manager"
    /\ items # <<>>
    /\ items[1].k = "tool:s1"
    /\ requests = {}

\* The launch of the i-th declared server.
LaunchOf(i) == init_idx = i /\ Launch

\* C24: while a server is launching or handshaking, the launch of every
\* server declared after it can begin.
C24_NoWaitingOnEarlierServer ==
    \A i \in 1..Len(servers) :
        (pc = "initialize" /\ init_idx < i /\ init_phase \in {"launch", "handshake"})
            => ENABLED LaunchOf(i)

\* C25: a step creates the output directory or writes an output file only
\* when the code region has yielded a schema class, every item of the
\* template has been evaluated and no exception is pending.
C25_OutputOnlyAfterRender ==
    [][(out_dir' # out_dir \/ out_files' # out_files)
          => /\ pc = "evaluate"
             /\ tmpl_idx > Len(items)
             /\ err = ""
             /\ load_result = "ok"
             /\ classes # {}]_vars

\* C25 witness: the render failed at an undefined reference after an item
\* was evaluated, and the output directory is still absent.
C25_Witness ==
    /\ pc = "raised"
    /\ err = "UndefinedError"
    /\ returned # <<>>
    /\ ~out_dir
    /\ out_files = {}

====
